---- MODULE Spec2Model ----
(***************************************************************************)
(* Model of src/hooks/useAppStore.ts: the fractal distance evaluator       *)
(* getPlanet1Distance with its module-level scratch buffers, the sound     *)
(* configuration defaults and the modulation range table.                  *)
(*                                                                         *)
(* Numbers.  JavaScript numbers are modelled in fixed point with three     *)
(* decimals: a length x is the integer 1000*x, an angle is in milliradians *)
(* and a factor (scale, pulse, cos, sin) is in thousandths.  A product of  *)
(* two such numbers is divided by 1000 again.  The two non-finite values   *)
(* the evaluator can produce are kept: Infinity (the lattice size once     *)
(* 58*scale^n leaves the finite range) and NaN (what Infinity % Infinity   *)
(* yields, and everything computed from it).                               *)
(***************************************************************************)
EXTENDS Integers, Sequences, FiniteSets, TLC

\* ------------------------------------------------------------------ bounds

\* Largest finite lattice size of the model; a product beyond it is Infinity
\* (stands for Number.MAX_VALUE, which the doubling lattice passes as well).
MaxFinite == 1000000

\* The iteration counter (an observer, not program state) saturates here.
MaxIters == 257

\* ------------------------------------------------------- non-finite values

Infinity == 2^30

NaN == 0 - 2^30

Abs(x) == IF x < 0 THEN 0 - x ELSE x

\* a + b, a - b and a * b of two numbers; NaN is contagious.
Add(a, b) == IF a = NaN \/ b = NaN THEN NaN ELSE a + b

Sub(a, b) == IF a = NaN \/ b = NaN THEN NaN ELSE a - b

Mul(a, b) == IF a = NaN \/ b = NaN THEN NaN ELSE (a * b) \div 1000

\* x * 5.0
Times5(x) == IF x = NaN THEN NaN ELSE x * 5

\* Math.min and Math.max return NaN when any argument is NaN.
MathMin3(a, b, c) ==
    IF a = NaN \/ b = NaN \/ c = NaN THEN NaN
    ELSE IF a <= b /\ a <= c THEN a ELSE IF b <= c THEN b ELSE c

MathMax(a, b) == IF a = NaN \/ b = NaN THEN NaN ELSE IF a >= b THEN a ELSE b

\* ------------------------------------------------------- Math.sin, Math.cos

\* sin on [0, pi/2] (0..1571 mrad) by its Taylor polynomial to x^7, in thousandths.
SinPoly(x) ==
    LET x2 == (x * x) \div 1000
        t3 == ((x * x2) \div 1000) \div 6
        t5 == ((t3 * x2) \div 1000) \div 20
        t7 == ((t5 * x2) \div 1000) \div 42
        s  == x - t3 + t5 - t7
    IN  IF s > 1000 THEN 1000 ELSE s

MathSin(a) ==
    IF a = NaN THEN NaN
    ELSE LET y == a % 6283
             h == IF y >= 3142 THEN y - 3142 ELSE y
             r == IF h > 1571 THEN 3142 - h ELSE h
         IN  IF y >= 3142 THEN 0 - SinPoly(r) ELSE SinPoly(r)

MathCos(a) == IF a = NaN THEN NaN ELSE MathSin(a + 1571)

\* ------------------------------------------------------ getPlanet1Distance

DefaultScale == 370

DefaultRotation == 1090

DefaultPulse == 0

LatticeStart == 58000

LatticeStop == 50

\* A uniform is <<>> when the key is missing (or holds undefined/null) and <<v>>
\* when it holds the number v.
Missing == <<>>

\* v ?? dflt, as `||` would do it: a supplied 0 is replaced as well.
NullishAsOr(v, dflt) == IF v = Missing \/ v = <<0>> THEN dflt ELSE v[1]

\* v ?? dflt
Nullish(v, dflt) == IF v = Missing THEN dflt ELSE v[1]

\* a % b of JavaScript for b > 0: the sign of the result is the dividend's.
JsRem(a, b) == IF a >= 0 THEN a % b ELSE 0 - ((0 - a) % b)

\* Lines 87-95: the angle and the rotation about Y of q.
Rotated(q, rt, pl, tm) ==
    LET angle == Add(rt, Mul(MathSin(Add(tm, Times5(q[2]))), pl))
        c == MathCos(angle)
        s == MathSin(angle)
    IN  << Add(Mul(q[1], c), Mul(q[3], s)),
           q[2],
           Add(Mul(Sub(0, q[1]), s), Mul(q[3], c)) >>

\* The fold with the plain remainder, which keeps the sign of a negative v.
FoldPlainRem(v, li) ==
    IF v = NaN \/ li = Infinity THEN NaN
    ELSE Abs(JsRem(v, li + li) - li)

\* Lines 98-112: true modulo by 2i, minus i, absolute value.
\* With i = Infinity, (v % Infinity) + Infinity = Infinity and
\* Infinity % Infinity = NaN.
Fold(v, li) ==
    IF v = NaN \/ li = Infinity THEN NaN
    ELSE LET two_i == li + li
         IN  Abs(JsRem(JsRem(v, two_i) + two_i, two_i) - li)

\* Lines 115-118: q = (i * 0.9) - abs_fold.
Inverted(f, li) ==
    LET i9 == IF li = Infinity THEN Infinity ELSE (li * 9) \div 10
    IN  << Sub(i9, f[1]), Sub(i9, f[2]), Sub(i9, f[3]) >>

\* Line 121: i *= scale.  The lattice is Infinity only after growing, that
\* is for a scale above 1, and Infinity * scale is Infinity again.
Shrunk(li, sc) ==
    IF li = Infinity THEN Infinity
    ELSE LET n == (li * sc) \div 1000
         IN  IF n > MaxFinite THEN Infinity ELSE n

\* The evaluator as a function of its arguments alone: the loop of lines
\* 86-122 from working point q, accumulator dd and lattice size li.
RECURSIVE Loop(_, _, _, _, _, _, _)
Loop(q, dd, li, sc, rt, pl, tm) ==
    IF ~(li > LatticeStop) THEN dd
    ELSE LET nq == Inverted([k \in 1..3 |-> Fold(Rotated(q, rt, pl, tm)[k], li)], li)
         IN  Loop(nq, MathMax(dd, MathMin3(nq[1], nq[2], nq[3])),
                  Shrunk(li, sc), sc, rt, pl, tm)

Distance(c) ==
    Loop(c.p, Sub(0, c.p[2]), LatticeStart,
         Nullish(c.uniforms.scale, DefaultScale),
         Nullish(c.uniforms.rot, DefaultRotation),
         Nullish(c.uniforms.pulse, DefaultPulse), c.t)

\* ------------------------------------------- sound configuration, ranges

\* Continuous values are in thousandths of their unit (gain 0.4 is 400,
\* a filter of 100 Hz is 100000); amounts and normalized sources likewise.

Sources == {"speed", "altitude", "pitch"}

ContinuousTargets ==
    {"masterVolume", "drone.gain", "drone.filter", "drone.pitch", "atmosphere.gain",
     "melody.gain", "arp.gain", "arp.speed", "arp.filter", "arp.octaves"}

GainTargets == {"masterVolume", "drone.gain", "atmosphere.gain", "melody.gain", "arp.gain"}

FilterTargets == {"drone.filter", "arp.filter"}

\* Line 161: direction "up", standing in for a wrong default.
ArpDirectionUp == "up"

\* Line 161: direction: 'updown'.
ArpDirection == "updown"

\* Lines 129-168: defaultSoundConfig, the base value of every target.
DefaultSoundConfig ==
    [t \in ContinuousTargets \cup {"arp.direction"} |->
        CASE t = "masterVolume" -> 500
          [] t = "drone.gain" -> 400
          [] t = "drone.filter" -> 100000
          [] t = "drone.pitch" -> 0
          [] t = "atmosphere.gain" -> 200
          [] t = "melody.gain" -> 300
          [] t = "arp.gain" -> 250
          [] t = "arp.speed" -> 1000
          [] t = "arp.filter" -> 600000
          [] t = "arp.octaves" -> 2000
          [] t = "arp.direction" -> ArpDirection]

Binding(id, en, src, tgt, amt) ==
    [id |-> id, enabled |-> en, source |-> src, target |-> tgt, amount |-> amt]

\* Lines 170-184: defaultSoundConfig.modulations.
DefaultModulations ==
    << Binding("1", TRUE, "speed", "drone.filter", 400),
       Binding("5", TRUE, "altitude", "atmosphere.gain", 150),
       Binding("6", TRUE, "altitude", "drone.pitch", -100),
       Binding("new1", TRUE, "pitch", "arp.direction", 1500),
       Binding("new2", TRUE, "speed", "arp.speed", 800),
       Binding("new3", TRUE, "pitch", "arp.octaves", 1000) >>

\* Lines 188-192: MOD_RANGES, in whole units; the entries the source shows.
\* A target without an entry has no effect.
ModRange(t) ==
    CASE t = "masterVolume" -> 1
      [] t = "drone.gain" -> 1
      [] t = "drone.filter" -> 2000
      [] t = "drone.pitch" -> 24
      [] t = "atmosphere.gain" -> 1
      [] t = "arp.gain" -> 1
      [] t = "arp.speed" -> 3
      [] t = "arp.filter" -> 4000
      [] t = "arp.octaves" -> 3
      [] OTHER -> 0

\* ------------------------------------------------------- ModulationRouter
\* resolve(bindings, normalized, baseConfig), after section 4.3 of the
\* specification: its code is not among the sources.

\* A source absent from the sample resolves to 0.
NormalizedOf(n, src) == IF src \in DOMAIN n THEN n[src] ELSE 0

\* A binding's contribution were a disabled binding merely not skipped.
ContributionUnskipped(b, n) ==
    ((NormalizedOf(n, b.source) * b.amount) \div 1000) * ModRange(b.target)

\* Step 2: normalized[source] * amount * RangeTable[target]; step 6: a
\* disabled binding is skipped.
Contribution(b, n) ==
    IF ~b.enabled THEN 0
    ELSE ((NormalizedOf(n, b.source) * b.amount) \div 1000) * ModRange(b.target)

RECURSIVE SumFor(_, _, _)
SumFor(bs, n, t) ==
    IF bs = << >> THEN 0
    ELSE (IF Head(bs).target = t THEN Contribution(Head(bs), n) ELSE 0)
         + SumFor(Tail(bs), n, t)

Between(lo, v, hi) == IF v < lo THEN lo ELSE IF v > hi THEN hi ELSE v

\* No clamping at all.
Unclamped(t, v) == v

\* Step 4: the legal domain of each target: gains [0,1], filter cutoffs the
\* audible 20 Hz..20 kHz, octave count a whole number 1..4 (rounded to
\* nearest), pitch offset and speed within their full-scale range.
Clamp(t, v) ==
    CASE t \in GainTargets -> Between(0, v, 1000)
      [] t \in FilterTargets -> Between(20000, v, 20000000)
      [] t = "arp.octaves" -> Between(1000, ((v + 500) \div 1000) * 1000, 4000)
      [] t = "drone.pitch" -> Between(-24000, v, 24000)
      [] t = "arp.speed" -> Between(0, v, 4000)
      [] OTHER -> v

\* Step 5: the three-way threshold at 0.5 on the source's normalized value.
Threshold(v, dflt) == IF v > 500 THEN "up" ELSE IF v < -500 THEN "down" ELSE dflt

\* Step 5: of several enabled bindings on the discrete target the last wins;
\* without one the base value stands.
RECURSIVE DirectionFor(_, _, _, _)
DirectionFor(bs, n, base, sofar) ==
    IF bs = << >> THEN sofar
    ELSE DirectionFor(Tail(bs), n, base,
            IF Head(bs).enabled /\ Head(bs).target = "arp.direction"
            THEN Threshold(NormalizedOf(n, Head(bs).source), base["arp.direction"])
            ELSE sofar)

Resolve(bs, n, base) ==
    [t \in DOMAIN base |->
        IF t = "arp.direction" THEN DirectionFor(bs, n, base, base[t])
        ELSE Clamp(t, base[t] + SumFor(bs, n, t))]

\* The configurations the authoring layer hands over: the default modulation
\* list with some of its bindings disabled, one amount replaced by +-100.0,
\* and possibly one more binding appended.
WithAmount(bs, k, a) == [j \in DOMAIN bs |-> IF j = k THEN [bs[j] EXCEPT !.amount = a] ELSE bs[j]]

Extras ==
    { << >>,
      << Binding("x1", TRUE, "speed", "atmosphere.gain", -100000) >>,
      << Binding("x2", TRUE, "speed", "arp.direction", 1000) >>,
      << Binding("x3", FALSE, "speed", "arp.direction", 1000) >>,
      << Binding("x4", TRUE, "pitch", "arp.filter", -100000) >> }

Configs ==
    { [j \in 1..Len(bs) |-> [bs[j] EXCEPT !.enabled = @ /\ j \notin off]] \o x :
        bs \in { DefaultModulations } \cup
               { WithAmount(DefaultModulations, k, a) : k \in {1, 2, 4}, a \in {100000, -100000} },
        off \in { {}, {4}, {1, 2}, {3, 5, 6}, 1..6 },
        x \in Extras }

Samples ==
    { [speed |-> 0, altitude |-> 0, pitch |-> 0],
      [speed |-> 800, altitude |-> 1000, pitch |-> 800],
      [speed |-> -1000, altitude |-> 300, pitch |-> -800],
      [speed |-> 800, altitude |-> -1000, pitch |-> 0],
      [altitude |-> 1000],
      [speed |-> -800, pitch |-> 500] }

\* ----------------------------------------------- parseHash, stringifyHash

\* A string is the sequence of its characters.  LoneSurrogate is one UTF-16
\* code unit, an unpaired surrogate such as \uD800.
LoneSurrogate == "D800"

\* What encodeURIComponent and decodeURIComponent throw, in place of a string.
URIError == << "URIError" >>

Str(s) == [k \in 1..Len(s) |-> s[k]]

\* The key the accessor Object.prototype.__proto__ answers to.
ProtoKey == << "_", "_", "p", "r", "o", "t", "o", "_", "_" >>

\* The characters of the model that encodeURIComponent escapes.
Escaped(c) ==
    CASE c = "&" -> << "%", "2", "6" >>
      [] c = "=" -> << "%", "3", "D" >>
      [] c = "%" -> << "%", "2", "5" >>
      [] c = "#" -> << "%", "2", "3" >>
      [] OTHER -> << c >>

RECURSIVE EscapeAll(_)
EscapeAll(s) == IF s = << >> THEN << >> ELSE Escaped(Head(s)) \o EscapeAll(Tail(s))

\* No escaping: the string as it is.
encodeNothing(s) == s

\* Line 63: encodeURIComponent; it throws on an unpaired surrogate.
encodeURIComponent(s) ==
    IF \E k \in 1..Len(s) : s[k] = LoneSurrogate THEN URIError ELSE EscapeAll(s)

Unescaped(h1, h2) ==
    CASE h1 = "2" /\ h2 = "6" -> << "&" >>
      [] h1 = "3" /\ h2 = "D" -> << "=" >>
      [] h1 = "2" /\ h2 = "5" -> << "%" >>
      [] h1 = "2" /\ h2 = "3" -> << "#" >>
      [] OTHER -> URIError

\* Line 55: decodeURIComponent; it throws on a % not followed by an escape.
RECURSIVE decodeURIComponent(_)
decodeURIComponent(s) ==
    IF s = << >> THEN << >>
    ELSE IF Head(s) = "%"
         THEN IF Len(s) < 3 THEN URIError
              ELSE LET c == Unescaped(s[2], s[3])
                       rest == decodeURIComponent(SubSeq(s, 4, Len(s)))
                   IN  IF c = URIError \/ rest = URIError THEN URIError ELSE c \o rest
         ELSE LET rest == decodeURIComponent(Tail(s))
              IN  IF rest = URIError THEN URIError ELSE << Head(s) >> \o rest

\* String.prototype.split on a one-character separator: at least one part.
RECURSIVE split(_, _)
split(s, sep) ==
    IF \A k \in 1..Len(s) : s[k] # sep THEN << s >>
    ELSE LET k == CHOOSE j \in 1..Len(s) :
                      s[j] = sep /\ \A m \in 1..(j - 1) : s[m] # sep
         IN  << SubSeq(s, 1, k - 1) >> \o split(SubSeq(s, k + 1, Len(s)), sep)

\* Array.prototype.join
RECURSIVE join(_, _)
join(parts, sep) ==
    IF parts = << >> THEN << >>
    ELSE IF Len(parts) = 1 THEN parts[1]
    ELSE parts[1] \o << sep >> \o join(Tail(parts), sep)

\* An object is the set of its own <<key, value>> entries, one per key.
\* Line 55: params[key] = value on an object literal: the key __proto__
\* reaches the inherited setter, which ignores a string, and no entry is made.
Assigned(obj, k, v) ==
    IF k = ProtoKey THEN obj
    ELSE { e \in obj : e[1] # k } \cup { << k, v >> }

\* Lines 61-65: the entries, in their order, as key=value joined by '&'.
stringifyHash(entries) ==
    IF \E j \in 1..Len(entries) :
          encodeURIComponent(entries[j][1]) = URIError
          \/ encodeURIComponent(entries[j][2]) = URIError
    THEN URIError
    ELSE join([j \in 1..Len(entries) |->
                  encodeURIComponent(entries[j][1]) \o << "=" >>
                      \o encodeURIComponent(entries[j][2])], "&")

Thrown == [ok |-> FALSE, map |-> {}]

\* Lines 52-57: the forEach over the parts, from the object built so far.
RECURSIVE ParseParts(_, _)
ParseParts(parts, obj) ==
    IF parts = << >> THEN [ok |-> TRUE, map |-> obj]
    ELSE LET temp == split(Head(parts), "=")
         IN  IF Len(temp) = 2
             THEN LET k == decodeURIComponent(temp[1])
                      v == decodeURIComponent(temp[2])
                  IN  IF k = URIError \/ v = URIError THEN Thrown
                      ELSE ParseParts(Tail(parts), Assigned(obj, k, v))
             ELSE ParseParts(Tail(parts), obj)

\* Lines 48-59: parseHash of window.location.hash.
parseHash(locationHash) ==
    LET hash == IF locationHash = << >> THEN << >> ELSE Tail(locationHash)
    IN  IF hash = << >> THEN [ok |-> TRUE, map |-> {}]
        ELSE ParseParts(split(hash, "&"), {})

\* window.location.hash after the fragment is set to s: empty for an empty
\* fragment, else '#' and the fragment.
LocationHash(s) == IF s = << >> THEN << >> ELSE << "#" >> \o s

Keys == { << >>, << "a", "=" >>, << "&" >>, ProtoKey, << LoneSurrogate >> }

Values == { << >>, << "a" >>, << "=", "&" >>, << "%", "2", "6" >>, << "a", LoneSurrogate >> }

\* The parameter objects shared: up to two entries with distinct keys.
ParamLists ==
    { << >> } \cup { << << k, v >> >> : k \in Keys, v \in Values }
    \cup { es \in { << << k1, v1 >>, << k2, v2 >> >> :
                        k1 \in Keys, v1 \in Values, k2 \in Keys, v2 \in Values } :
              es[1][1] # es[2][1] }

\* Fragments a visitor arrives with.
Fragments ==
    { Str(<< "a", "=", "b", "=", "c" >>),
      Str(<< "a", "b", "c" >>),
      Str(<< "a", "=", "1", "&", "&", "b", "=", "2" >>),
      Str(<< "=" >>),
      Str(<< "&" >>),
      Str(<< "a", "=", "%" >>),
      Str(<< "a", "=", "b", "&", "c" >>),
      Str(<< "%", "2", "6", "=", "%", "3", "D", "&", "a", "=", "=", "a" >>),
      Str(<< "a", "=", "1", "&", "a", "=", "2" >>),
      Str(<< "a", "%", "=", "1", "=", "&", "b", "=" >>) }

\* ------------------------------------------------------------------- state

\* Invocations of getPlanet1Distance.  The page's single thread runs caller 1
\* alone; caller 2 exists only where evaluation is spread over several
\* evaluation contexts (ConcSpec).
Callers == {1, 2}

VARIABLES
    temp_q,      \* line 70: module-level Float32Array(3)
    temp_q_rot,  \* line 71: module-level Float32Array(3)
    pc,          \* per caller: where the invocation stands
    call,        \* per caller: the arguments as passed, [p, uniforms, t]
    p_vec,       \* per caller: the caller's point array, as it is now
    uniforms,    \* per caller: the caller's uniforms object, as it is now
    scale,       \* per caller: locals of lines 74-76
    rot,
    pulse,
    d,           \* per caller: local of line 83
    i,           \* per caller: local of line 84
    fold,        \* per caller: locals qx, qy, qz after line 112
    iters,       \* per caller: loop bodies entered (observer, saturating)
    entry,       \* per caller: temp_q as the invocation found it (observer)
    result,      \* per caller: the value returned
    prev,        \* an earlier completed call, remembered (observer): {} or one record
    bindings,    \* the active modulation list (lines 170-184 at start)
    normalized,  \* the tick's normalized telemetry sample
    resolved,    \* the tick's ResolvedParameterSet
    fresh,       \* a tick has resolved bindings and normalized into resolved
    shared,      \* the entries last given to stringifyHash
    locationHash,\* window.location.hash
    restored,    \* what parseHash last returned, [ok, map]; ok is FALSE if it threw
    hstage       \* "init", "shared", "threw", "restored", "visited" or "parsed"

distVars == << temp_q, temp_q_rot, pc, call, p_vec, uniforms, scale, rot, pulse,
               d, i, fold, iters, entry, result, prev >>

routerVars == << bindings, normalized, resolved, fresh >>

hashVars == << shared, locationHash, restored, hstage >>

vars == << distVars, routerVars, hashVars >>

Zero3 == << 0, 0, 0 >>

U(sc, rt, pl) == [scale |-> sc, rot |-> rt, pulse |-> pl]

Arg(p, u, tm) == [p |-> p, uniforms |-> u, t |-> tm]

NoUniforms == U(Missing, Missing, Missing)

\* The calls made on the page's thread.
Inputs ==
    { Arg(<< 0, 0, 5000 >>, NoUniforms, 0),
      Arg(<< 0, 0, 0 >>, NoUniforms, 0),
      Arg(<< 1500, -2250, 700 >>, NoUniforms, 0),
      Arg(<< -64000, 3000, 116000 >>, U(<<500>>, Missing, <<300>>), 2000),
      Arg(<< 1500, -2250, 700 >>, U(<<0>>, <<0>>, Missing), 0),
      Arg(<< 0, 0, 5000 >>, U(Missing, <<0>>, Missing), 0),
      Arg(<< 0, 0, 5000 >>, U(<<-500>>, <<1090>>, <<0>>), 1000),
      Arg(<< 1500, -2250, 700 >>, U(<<980>>, <<0>>, <<0>>), 0),
      Arg(<< 0, 0, 5000 >>, U(<<1000>>, <<0>>, <<0>>), 0),
      Arg(<< 1500, -2250, 700 >>, U(<<2000>>, <<0>>, <<0>>), 0) }

\* The calls made when two evaluation contexts run at once.
ConcInputs ==
    { Arg(<< 0, 0, 5000 >>, U(<<10>>, Missing, Missing), 0),
      Arg(<< 1500, -2250, 700 >>, U(<<0>>, Missing, Missing), 0) }

Init ==
    /\ temp_q = Zero3
    /\ temp_q_rot = Zero3
    /\ pc = [c \in Callers |-> "idle"]
    /\ call = [c \in Callers |-> Arg(Zero3, NoUniforms, 0)]
    /\ p_vec = [c \in Callers |-> Zero3]
    /\ uniforms = [c \in Callers |-> NoUniforms]
    /\ scale = [c \in Callers |-> 0]
    /\ rot = [c \in Callers |-> 0]
    /\ pulse = [c \in Callers |-> 0]
    /\ d = [c \in Callers |-> 0]
    /\ i = [c \in Callers |-> 0]
    /\ fold = [c \in Callers |-> Zero3]
    /\ iters = [c \in Callers |-> 0]
    /\ entry = [c \in Callers |-> Zero3]
    /\ result = [c \in Callers |-> 0]
    /\ prev = {}
    /\ bindings = DefaultModulations
    /\ normalized = [speed |-> 0, altitude |-> 0, pitch |-> 0]
    /\ resolved = DefaultSoundConfig
    /\ fresh = FALSE
    /\ shared = << >>
    /\ locationHash = << >>
    /\ restored = [ok |-> TRUE, map |-> {}]
    /\ hstage = "init"

\* ----------------------------------------------------------------- actions

\* Lines 73-76: the call, and the three uniform lookups with their defaults.
Call(self, a) ==
    /\ pc[self] \in {"idle", "done"}
    /\ call' = [call EXCEPT ![self] = a]
    /\ p_vec' = [p_vec EXCEPT ![self] = a.p]
    /\ uniforms' = [uniforms EXCEPT ![self] = a.uniforms]
    /\ scale' = [scale EXCEPT ![self] = Nullish(a.uniforms.scale, DefaultScale)]
    /\ rot' = [rot EXCEPT ![self] = Nullish(a.uniforms.rot, DefaultRotation)]
    /\ pulse' = [pulse EXCEPT ![self] = Nullish(a.uniforms.pulse, DefaultPulse)]
    /\ d' = [d EXCEPT ![self] = 0]
    /\ i' = [i EXCEPT ![self] = 0]
    /\ fold' = [fold EXCEPT ![self] = Zero3]
    /\ iters' = [iters EXCEPT ![self] = 0]
    /\ entry' = [entry EXCEPT ![self] = temp_q]
    /\ result' = [result EXCEPT ![self] = 0]
    /\ pc' = [pc EXCEPT ![self] = "copy"]
    /\ UNCHANGED << temp_q, temp_q_rot, prev, routerVars, hashVars >>

\* The working point the invocation starts from, were p not copied.
StaleStart(self) == temp_q

\* Lines 79-81: the working point the invocation starts from.
CopiedStart(self) == p_vec[self]

\* Lines 79-81: temp_q = p_vec.
CopyPoint(self) ==
    /\ pc[self] = "copy"
    /\ temp_q' = CopiedStart(self)
    /\ pc' = [pc EXCEPT ![self] = "init"]
    /\ UNCHANGED << temp_q_rot, call, p_vec, uniforms, scale, rot, pulse, d, i,
                    fold, iters, entry, result, prev, routerVars, hashVars >>

\* Lines 83-84: d = -temp_q[1]; i = 58.0.
InitLoop(self) ==
    /\ pc[self] = "init"
    /\ d' = [d EXCEPT ![self] = Sub(0, temp_q[2])]
    /\ i' = [i EXCEPT ![self] = LatticeStart]
    /\ pc' = [pc EXCEPT ![self] = "test"]
    /\ UNCHANGED << temp_q, temp_q_rot, call, p_vec, uniforms, scale, rot, pulse,
                    fold, iters, entry, result, prev, routerVars, hashVars >>

\* Line 86: while (i > 0.05).
Test(self) ==
    /\ pc[self] = "test"
    /\ IF i[self] > LatticeStop
       THEN /\ pc' = [pc EXCEPT ![self] = "rotate"]
            /\ iters' = [iters EXCEPT ![self] =
                            IF @ < MaxIters THEN @ + 1 ELSE @]
       ELSE /\ pc' = [pc EXCEPT ![self] = "return"]
            /\ UNCHANGED iters
    /\ UNCHANGED << temp_q, temp_q_rot, call, p_vec, uniforms, scale, rot, pulse,
                    d, i, fold, entry, result, prev, routerVars, hashVars >>

\* Lines 87-95: temp_q_rot = rotate3D_Y(angle, temp_q).
Rotate(self) ==
    /\ pc[self] = "rotate"
    /\ temp_q_rot' = Rotated(temp_q, rot[self], pulse[self], call[self].t)
    /\ pc' = [pc EXCEPT ![self] = "fold"]
    /\ UNCHANGED << temp_q, call, p_vec, uniforms, scale, rot, pulse, d, i,
                    fold, iters, entry, result, prev, routerVars, hashVars >>

\* Lines 98-118: qx, qy, qz from temp_q_rot, then temp_q from them.
FoldStep(self) ==
    /\ pc[self] = "fold"
    /\ fold' = [fold EXCEPT ![self] = [k \in 1..3 |-> Fold(temp_q_rot[k], i[self])]]
    /\ temp_q' = Inverted(fold'[self], i[self])
    /\ pc' = [pc EXCEPT ![self] = "accum"]
    /\ UNCHANGED << temp_q_rot, call, p_vec, uniforms, scale, rot, pulse, d, i,
                    iters, entry, result, prev, routerVars, hashVars >>

\* Line 120: d = Math.max(d, Math.min(temp_q[0], temp_q[1], temp_q[2])).
Accumulate(self) ==
    /\ pc[self] = "accum"
    /\ d' = [d EXCEPT ![self] = MathMax(@, MathMin3(temp_q[1], temp_q[2], temp_q[3]))]
    /\ pc' = [pc EXCEPT ![self] = "shrink"]
    /\ UNCHANGED << temp_q, temp_q_rot, call, p_vec, uniforms, scale, rot, pulse,
                    i, fold, iters, entry, result, prev, routerVars, hashVars >>

\* Line 121: i *= scale.
Shrink(self) ==
    /\ pc[self] = "shrink"
    /\ i' = [i EXCEPT ![self] = Shrunk(@, scale[self])]
    /\ pc' = [pc EXCEPT ![self] = "test"]
    /\ UNCHANGED << temp_q, temp_q_rot, call, p_vec, uniforms, scale, rot, pulse,
                    d, fold, iters, entry, result, prev, routerVars, hashVars >>

\* Line 123: return d.  The observer may remember this call.
Return(self) ==
    /\ pc[self] = "return"
    /\ result' = [result EXCEPT ![self] = d[self]]
    /\ pc' = [pc EXCEPT ![self] = "done"]
    /\ \/ prev' = { [call |-> call[self], entry |-> entry[self], result |-> d[self]] }
       \/ UNCHANGED prev
    /\ UNCHANGED << temp_q, temp_q_rot, call, p_vec, uniforms, scale, rot, pulse,
                    d, i, fold, iters, entry, routerVars, hashVars >>

\* One step of a running invocation.
Run(self) ==
    \/ CopyPoint(self)
    \/ InitLoop(self)
    \/ Test(self)
    \/ Rotate(self)
    \/ FoldStep(self)
    \/ Accumulate(self)
    \/ Shrink(self)
    \/ Return(self)

\* The page: one thread, each call runs to completion before the next.
Next == (\E a \in Inputs : Call(1, a)) \/ Run(1)

Spec == Init /\ [][Next]_vars

\* The calls whose scale lies outside (0,1), and one inside.
LiveInputs ==
    { a \in Inputs : a.uniforms.scale \in {<<-500>>, <<0>>, <<500>>, <<1000>>, <<2000>>} }

LiveNext == (\E a \in LiveInputs : Call(1, a)) \/ Run(1)

PcValues ==
    {"idle", "copy", "init", "test", "rotate", "fold", "accum", "shrink", "return", "done"}

\* The thread does not stop in the middle of a call: while the invocation
\* runs, its program counter moves on.  (Every running position has a step,
\* so this is weak fairness of Run(1); it is stated on pc alone, which spares
\* the evaluation of the arithmetic under ENABLED.)
Advance ==
    /\ pc[1] \notin {"idle", "done"}
    /\ pc' \in [Callers -> PcValues]
    /\ pc'[1] # pc[1]

LiveSpec == Init /\ [][LiveNext]_vars /\ WF_pc(Advance)

\* Two evaluation contexts sharing the module's buffers, each evaluating one
\* point, their steps interleaved.
ConcNext ==
    \E self \in Callers :
        \/ pc[self] = "idle" /\ \E a \in ConcInputs : Call(self, a)
        \/ Run(self)

ConcSpec == Init /\ [][ConcNext]_vars

\* One tick: resolve(bindings, normalized, baseConfig) on the configuration
\* snapshot and the normalized sample of the tick.
Tick(c, n) ==
    /\ bindings' = c
    /\ normalized' = n
    /\ resolved' = Resolve(c, n, DefaultSoundConfig)
    /\ fresh' = TRUE
    /\ UNCHANGED << distVars, hashVars >>

RouterNext == \E c \in Configs, n \in Samples : Tick(c, n)

RouterSpec == Init /\ [][RouterNext]_vars

\* A page is loaded with fragment f: nothing is shared or restored yet.
Visit(f) ==
    /\ hstage \in {"init", "threw", "restored", "parsed"}
    /\ locationHash' = LocationHash(f)
    /\ hstage' = "visited"
    /\ shared' = << >>
    /\ restored' = [ok |-> TRUE, map |-> {}]
    /\ UNCHANGED << distVars, routerVars >>

\* The loaded page shares its session: the fragment becomes
\* stringifyHash(entries), unless stringifyHash throws.
Share(entries) ==
    /\ hstage \in {"init", "parsed"}
    /\ shared' = entries
    /\ IF stringifyHash(entries) = URIError
       THEN hstage' = "threw" /\ UNCHANGED locationHash
       ELSE hstage' = "shared" /\ locationHash' = LocationHash(stringifyHash(entries))
    /\ UNCHANGED << restored, distVars, routerVars >>

\* parseHash() is called: on the page's own fragment after loading, or on the
\* fragment that was shared.
Restore ==
    /\ hstage \in {"shared", "visited"}
    /\ restored' = parseHash(locationHash)
    /\ hstage' = IF hstage = "shared" THEN "restored" ELSE "parsed"
    /\ UNCHANGED << shared, locationHash, distVars, routerVars >>

HashNext ==
    \/ \E f \in Fragments : Visit(f)
    \/ \E es \in ParamLists : Share(es)
    \/ Restore

HashSpec == Init /\ [][HashNext]_vars

\* ------------------------------------------------- claims: DistanceField

Dirty(c) == pc[c] \notin {"idle"}

\* C1: for every scale strictly between 0 and 1 the evaluator ends within
\* the documented cap of 256 loop iterations.
C1_WithinCap ==
    \A c \in Callers :
        (Dirty(c) /\ 0 < scale[c] /\ scale[c] < 1000) => iters[c] <= 256

\* C2: for every scale outside (0,1) the evaluator still terminates: the
\* while loop is left and the accumulated d is returned.
C2_Terminates ==
    \A c \in {1} :
        (pc[c] = "copy" /\ ~(0 < scale[c] /\ scale[c] < 1000)) ~> (pc[c] = "done")

\* C3: the evaluator is reentrant: an invocation interleaved with another
\* returns the value it returns when run alone.
C3_Reentrant ==
    \A c \in Callers : pc[c] = "done" => result[c] = Distance(call[c])

\* C4: the evaluator is pure across sequential calls: a completed call
\* returns what an earlier completed call with the same arguments returned,
\* whatever the scratch buffers held when it began, and it leaves its inputs
\* p and uniforms as they were passed.
C4_Pure ==
    \A c \in Callers :
        pc[c] = "done" =>
            /\ \A r \in prev : r.call = call[c] => r.result = result[c]
            /\ p_vec[c] = call[c].p
            /\ uniforms[c] = call[c].uniforms

\* Two completed calls with the same arguments that found different scratch.
C4_Witness ==
    /\ pc[1] = "done"
    /\ \E r \in prev : r.call = call[1] /\ r.entry # entry[1] /\ r.entry # Zero3

\* C5: a missing fractal parameter takes its fixed default (0.37, 1.09, 0.0),
\* a supplied one keeps its value, and with the default scale the call
\* completes (after the 8 loop iterations 58 * 0.37^n > 0.05 allows).
C5_Defaults ==
    \A c \in Callers :
        Dirty(c) =>
            LET u == call[c].uniforms
            IN  /\ scale[c] = IF u.scale = Missing THEN 370 ELSE u.scale[1]
                /\ rot[c] = IF u.rot = Missing THEN 1090 ELSE u.rot[1]
                /\ pulse[c] = IF u.pulse = Missing THEN 0 ELSE u.pulse[1]
                /\ u.scale = Missing => iters[c] <= 8
                /\ (u.scale = Missing /\ pc[c] = "done") => iters[c] = 8

\* A completed call that was given no scale and no pulse but a rotation.
C5_Witness ==
    /\ pc[1] = "done"
    /\ call[1].uniforms = U(Missing, <<0>>, Missing)
    /\ scale[1] = 370 /\ rot[1] = 0 /\ iters[1] = 8

AllDisabled == \A k \in DOMAIN bindings : ~bindings[k].enabled

\* C6: with every binding disabled, resolve returns baseConfig for every
\* target, whatever the normalized sources.
C6_DisabledIdentity == (fresh /\ AllDisabled) => resolved = DefaultSoundConfig

\* A tick with all bindings disabled, a non-zero sample and an amount of 100.
C6_Witness ==
    /\ fresh
    /\ AllDisabled
    /\ normalized = [speed |-> 800, altitude |-> 1000, pitch |-> 800]
    /\ \E k \in DOMAIN bindings : bindings[k].amount = 100000
    /\ resolved = DefaultSoundConfig

\* C7: whatever the enabled bindings, amounts and sources, every resolved
\* gain lies in [0,1] and no resolved filter frequency is negative.
C7_Clamped ==
    fresh =>
        /\ \A t \in GainTargets : 0 <= resolved[t] /\ resolved[t] <= 1000
        /\ \A t \in FilterTargets : resolved[t] >= 0

\* A tick in which an amount of magnitude 100 drives a gain above 1 and a
\* filter below 0 before clamping.
C7_Witness ==
    /\ fresh
    /\ DefaultSoundConfig["atmosphere.gain"] + SumFor(bindings, normalized, "atmosphere.gain") > 1000
    /\ DefaultSoundConfig["arp.filter"] + SumFor(bindings, normalized, "arp.filter") < 0
    /\ resolved["atmosphere.gain"] = 1000

\* The direction mode is bound, by enabled bindings, to pitch alone.
DirectionOnPitch ==
    /\ \E k \in DOMAIN bindings : bindings[k].enabled /\ bindings[k].target = "arp.direction"
    /\ \A k \in DOMAIN bindings :
          (bindings[k].enabled /\ bindings[k].target = "arp.direction")
              => bindings[k].source = "pitch"

\* C8: the direction mode follows a three-way threshold at 0.5 on the
\* normalized pitch it is bound to, whatever the binding's amount: +0.8 gives
\* ascending, -0.8 descending, 0.0 the default bidirectional 'updown'.
C8_Direction ==
    (fresh /\ DirectionOnPitch /\ "pitch" \in DOMAIN normalized) =>
        /\ normalized.pitch = 800 => resolved["arp.direction"] = "up"
        /\ normalized.pitch = -800 => resolved["arp.direction"] = "down"
        /\ normalized.pitch = 0 => resolved["arp.direction"] = "updown"

\* Pitch 0.0 resolved to 'updown' through a direction binding whose amount
\* is -100.
C8_Witness ==
    /\ fresh
    /\ DirectionOnPitch
    /\ bindings[4].amount = -100000
    /\ normalized = [speed |-> 800, altitude |-> -1000, pitch |-> 0]
    /\ resolved["arp.direction"] = "updown"

\* ------------------------------------------- claims: parseHash, stringifyHash

\* The object holding the entries es.
ObjectOf(es) == { es[j] : j \in 1..Len(es) }

WellFormed(s) == \A k \in 1..Len(s) : s[k] # LoneSurrogate

EqualsIn(s) == Cardinality({ k \in 1..Len(s) : s[k] = "=" })

\* The '&'-separated segments of s, as pairs of first and last position.
Segments(s) ==
    { ab \in (1..(Len(s) + 1)) \X (0..Len(s)) :
        /\ ab[1] <= ab[2] + 1
        /\ ab[1] = 1 \/ s[ab[1] - 1] = "&"
        /\ ab[2] = Len(s) \/ s[ab[2] + 1] = "&"
        /\ \A k \in ab[1]..ab[2] : s[k] # "&" }

\* Every entry parseHash returned comes from a segment with exactly one '=',
\* and a fragment with no such segment yields the empty object.
DropsOtherSegments ==
    (hstage = "parsed" /\ restored.ok) =>
        LET body == IF locationHash = << >> THEN << >> ELSE Tail(locationHash)
        IN  \A e \in restored.map :
                \E ab \in Segments(body) :
                    LET seg == SubSeq(body, ab[1], ab[2])
                    IN  /\ EqualsIn(seg) = 1
                        /\ \E k \in 1..Len(seg) :
                              /\ seg[k] = "="
                              /\ decodeURIComponent(SubSeq(seg, 1, k - 1)) = e[1]
                              /\ decodeURIComponent(SubSeq(seg, k + 1, Len(seg))) = e[2]

\* C10 as stated: for every map of string keys to string values, parseHash of
\* the fragment stringifyHash produced returns the same map; and parseHash
\* drops every segment that does not split into exactly two parts on '='.
C10_RoundTripAll ==
    /\ hstage # "threw"
    /\ hstage = "restored" => (restored.ok /\ restored.map = ObjectOf(shared))
    /\ DropsOtherSegments

\* The maps C10 holds for: keys and values without an unpaired surrogate,
\* and no key __proto__.
Shareable(es) ==
    \A j \in 1..Len(es) :
        WellFormed(es[j][1]) /\ WellFormed(es[j][2]) /\ es[j][1] # ProtoKey

\* C10: for every map whose keys and values are well-formed strings and which
\* has no key '__proto__', stringifyHash does not throw and parseHash of the
\* fragment it produced returns the same map, keys or values with '&', '=' or
\* '%' and the empty map included; and parseHash drops every segment that
\* does not split into exactly two parts on '='.
C10_RoundTrip ==
    /\ (hstage \in {"threw", "shared", "restored"} /\ Shareable(shared)) => hstage # "threw"
    /\ (hstage = "restored" /\ Shareable(shared)) =>
            (restored.ok /\ restored.map = ObjectOf(shared))
    /\ DropsOtherSegments

\* A restored map of two entries whose keys and values hold '&', '=' and '%'.
C10_Witness ==
    /\ hstage = "restored"
    /\ shared = << << << "&" >>, << "=", "&" >> >>, << << "a", "=" >>, << "%", "2", "6" >> >> >>
    /\ restored.ok
    /\ restored.map = ObjectOf(shared)

====
